---- MODULE Spec2Model ----
(***************************************************************************)
(* Model of the NetworkSlice controller (controller_v1.py) and of its      *)
(* gNMI client (gnmi_client_v1.py).                                        *)
(*                                                                         *)
(* Python dicts are functions whose domain is the set of keys present.     *)
(* Python strings are TLA+ strings; a string built by an f-string is the   *)
(* tuple of its pieces, so two formatted strings are equal exactly when    *)
(* their pieces are.  Python's None is the string None where a plain       *)
(* string is expected and the tuple NoneT where a formatted string is.     *)
(***************************************************************************)
EXTENDS Integers, Sequences, FiniteSets, TLC

\* ------------------------------------------------------------------ bounds
\* Longest endpoint list handed to the create/update handler.
MaxEndpoints == 3
\* Longest endpoint list handed to the timer and delete handlers.
MaxBestEffortEndpoints == 2
\* Longest SAP list of an observed document handed to the drift detector.
MaxSaps == 2

\* ------------------------------------------------------------ dict helpers
None == "None"
NoneT == <<"None">>
EmptyDict == <<>>

\* d.get(k, default)
GetD(d, k, default) == IF k \in DOMAIN d THEN d[k] ELSE default

\* d[k] = v
PutD(d, k, v) == (k :> v) @@ d

\* The dict fragments {} and {k: v} for v in S.
Opt(k, S) == {EmptyDict} \cup {(k :> v) : v \in S}

SeqsUpTo(S, n) == UNION {[1..k -> S] : k \in 0..n}

\* str.lower() on the service type strings that occur.
Lower(s) ==
    CASE s = "VPLS" -> "vpls"
      [] s = "VPRN" -> "vprn"
      [] s = "ePipe" -> "epipe"
      [] s = "L2VPN" -> "l2vpn"
      [] OTHER -> s

\* ------------------------------------------------------------ input domains
Routers == {"SR1", "SR2", "SR3"}
SdpIds == {"1", "2"}
ServiceId == "100"

EndpointBase == ("interfaceName" :> "1/1/1") @@ ("vlanID" :> "10")

EndpointsOver(R, S) ==
    {r @@ s @@ EndpointBase : r \in Opt("routerName", R), s \in Opt("sdpId", S)}

IntentsOver(T, E, n) ==
    {t @@ ("serviceId" :> ServiceId) @@ ("endpoints" :> eps) :
        t \in T, eps \in SeqsUpTo(E, n)}

\* Endpoints written with the attribute names of the data model, the VLAN
\* under vlanId.
DataModelEndpoints ==
    {("routerName" :> "SR1") @@ ("interfaceName" :> "1/1/1")
        @@ ("vlanId" :> "10") @@ s : s \in Opt("sdpId", {"1"})}

\* Intents delivered to the create/update handler.
ProvisionIntents ==
    IntentsOver({("serviceType" :> "VPLS")}, DataModelEndpoints, MaxEndpoints)
    \cup
    IntentsOver({("serviceType" :> "ePipe")},
                EndpointsOver({"SR1", "SR2"}, SdpIds), MaxEndpoints)
    \cup IntentsOver({("serviceType" :> "VPLS"), ("serviceType" :> "VPRN")},
                     EndpointsOver(Routers, {"1"}), MaxEndpoints)
    \cup IntentsOver({EmptyDict, ("serviceType" :> "L2VPN")},
                     EndpointsOver(Routers, {}), MaxEndpoints)

\* Intents delivered to the timer and delete handlers.
BestEffortIntents ==
    IntentsOver(Opt("serviceType", {"VPLS", "VPRN", "ePipe", "L2VPN"}),
                EndpointsOver({"SR1", "SR2"}, {}), MaxBestEffortEndpoints)

\* ---------------------------------------------------------------- gNMIClient
\* gNMIClient.__init__: the fields of a client built for one router.
gNMIClient(router_name, endpoint_spec, slice_spec) ==
    LET service_type == GetD(slice_spec, "serviceType", None)
        service_id == GetD(slice_spec, "serviceId", "N/A")
    IN  [router_name |-> router_name,
         endpoint_spec |-> endpoint_spec,
         slice_spec |-> slice_spec,
         customer_id |-> GetD(slice_spec, "customer", "1"),
         endpoint_name |-> GetD(endpoint_spec, "interfaceName", "N/A"),
         service_type |-> service_type,
         service_id |-> service_id,
         service_name |-> GetD(slice_spec, "serviceName",
                               <<service_type, "_", service_id>>),
         description |-> GetD(slice_spec, "description",
                              <<"Service ", service_type, " ", service_id>>)]

\* _get_creds_from_env: whether host, user and password are all found in the
\* environment.  A router's variables may be there or not; an endpoint
\* without routerName is looked up as None_HOST, ..., which are not defined.
CredentialLookups(router_name) ==
    IF router_name = None THEN {FALSE} ELSE BOOLEAN

\* _get_creds_from_env: the ValueError raised when a variable is missing.
MissingCredentials(router_name) == <<"Missing credentials for ", router_name>>

\* _get_base_service_payload
get_base_service_payload(c) ==
    ("admin-state" :> GetD(c.slice_spec, "adminState", "enable"))
    @@ ("description" :> c.description)
    @@ ("customer" :> c.customer_id)
    @@ ("service-id" :> c.service_id)

\* _get_service_update_path
get_service_update_path(c, service_type) ==
    <<"/configure/service/", Lower(service_type), "[service-name=",
      c.service_name, "]">>

\* "<interfaceName>:<vlanID>" as the client formats it
SapId(c) ==
    <<GetD(c.endpoint_spec, "interfaceName", None), ":",
      GetD(c.endpoint_spec, "vlanID", None)>>

\* "<sdpId>:<service_id>" as the client formats it
SdpBindId(c) ==
    <<GetD(c.endpoint_spec, "sdpId", "1000"), ":", c.service_id>>

\* A VPLS payload that binds a mesh-sdp whatever vplsType says.
get_vpls_payload_AlwaysMesh(c) ==
    <<get_service_update_path(c, "VPLS"),
      ("mesh-sdp" :> <<("sdp-bind-id" :> SdpBindId(c))>>)
      @@ ("sap" :> <<("sap-id" :> SapId(c)) @@ ("admin-state" :> "enable")>>)
      @@ get_base_service_payload(c)>>

\* _get_vpls_payload
get_vpls_payload(c) ==
    LET sdp_type == IF GetD(c.slice_spec, "vplsType", "mesh-sdp") = "mesh-sdp"
                    THEN "mesh-sdp" ELSE "spoke-sdp"
        payload_data ==
            (sdp_type :> <<("sdp-bind-id" :> SdpBindId(c))>>)
            @@ ("sap" :> <<("sap-id" :> SapId(c)) @@ ("admin-state" :> "enable")>>)
            @@ get_base_service_payload(c)
    IN  <<get_service_update_path(c, "VPLS"), payload_data>>

\* _get_vprn_payload; ipAddress is a pair <<address, prefix-length>>, the two
\* halves ip_address.split('/') yields.
get_vprn_payload(c) ==
    LET interface_name == GetD(c.endpoint_spec, "interfaceName", None)
        vlan_id == GetD(c.endpoint_spec, "vlanID", None)
        ip_address == GetD(c.endpoint_spec, "ipAddress", <<"10.0.0.1", "30">>)
        payload_data ==
            ("router-id" :> GetD(c.slice_spec, "routerId", None))
            @@ ("interface" :>
                  <<("interface-name" :> <<interface_name, vlan_id>>)
                    @@ ("ipv4" :> ("primary" :>
                          (("address" :> ip_address[1])
                           @@ ("prefix-length" :> ip_address[2]))))
                    @@ ("sap" :> <<("sap-id" :> <<interface_name, ":", vlan_id>>)>>)>>)
            @@ ("bgp-ipvpn" :> ("mpls" :>
                  (("admin-state" :> "enable")
                   @@ ("auto-bind-tunnel" :> ("resolution" :> "any"))
                   @@ ("route-distinguisher" :> <<"64496:", c.service_id>>)
                   @@ ("vrf-target" :>
                         ("community" :> <<"target:64496:", c.service_id>>)))))
            @@ get_base_service_payload(c)
    IN  <<get_service_update_path(c, "VPRN"), payload_data>>

\* _get_epipe_payload
get_epipe_payload(c) ==
    LET payload_data ==
            ("sap" :> <<("sap-id" :> SapId(c))>>)
            @@ ("spoke-sdp" :> ("sdp-bind-id" :> SdpBindId(c)))
            @@ get_base_service_payload(c)
    IN  <<get_service_update_path(c, "ePipe"), payload_data>>

\* apply_config, before the session is opened: the updates to push, or the
\* NotImplementedError of an unsupported service type.
Supported(service_type) == service_type \in {"VPLS", "VPRN", "ePipe"}

UnsupportedServiceType(c) == <<"Unsupported service type: ", c.service_type>>

Updates(c) ==
    CASE c.service_type = "VPLS" -> get_vpls_payload(c)
      [] c.service_type = "VPRN" -> get_vprn_payload(c)
      [] c.service_type = "ePipe" -> get_epipe_payload(c)

\* The exceptions the session calls raise.
ConnectFailed == <<"connection failed">>
RpcFailed == <<"rpc failed">>
SetRpcFailed(c) == <<"gNMI Set RPC failed to push config to ", c.router_name>>
DeleteRpcFailed(c) == <<"gNMI Set RPC failed to delete config on ", c.router_name>>
NoneHasNoLower == <<"'NoneType' object has no attribute 'lower'">>
StrHasNoGet == <<"'str' object has no attribute 'get'">>
MalformedResponse == <<"list index out of range">>


\* -------------------------------------------------------------------- state
VARIABLES
    pc,                          \* position of the running handler
    handler,                     \* "none", "provision", "drift" or "cleanup"
    spec,                        \* the intent the handler was called with
    work,                        \* the loop's items: client arguments per item
    idx,                         \* index in work of the item being processed
    provisioned_endpoints,       \* dict router name -> outcome string
    overall_operational_status,  \* drift_detection_check's aggregate
    success,                     \* cleanup_network_slice's flag
    is_drift_detected,           \* check_for_drift's result for this item
    observed_config,             \* get_config's result for this item
    open_sessions,               \* items whose device session is open
    outcome,                     \* "none", "returned" or "raised"
    status,                      \* the status dict returned or patched
    raised,                      \* the exception that left the handler
    started,                     \* history: items whose client was constructed
    contacted,                   \* history: items for which a session was tried
    log,                         \* history: device calls of the current item
    pushed,                      \* history: item -> updates given to Set
    failures,                    \* history: item -> exception it raised
    oper_states                  \* history: item -> operational state read

vars == <<pc, handler, spec, work, idx, provisioned_endpoints,
          overall_operational_status, success, is_drift_detected,
          observed_config, open_sessions, outcome, status, raised, started,
          contacted, log, pushed, failures, oper_states>>

history == <<started, contacted, log, pushed, failures, oper_states>>

Init ==
    /\ pc = "idle"
    /\ handler = "none"
    /\ spec = EmptyDict
    /\ work = <<>>
    /\ idx = 0
    /\ provisioned_endpoints = EmptyDict
    /\ overall_operational_status = "UP"
    /\ success = TRUE
    /\ is_drift_detected = FALSE
    /\ observed_config = EmptyDict
    /\ open_sessions = {}
    /\ outcome = "none"
    /\ status = EmptyDict
    /\ raised = <<>>
    /\ started = {}
    /\ contacted = {}
    /\ log = <<>>
    /\ pushed = EmptyDict
    /\ failures = EmptyDict
    /\ oper_states = EmptyDict

\* The item being processed and the client built for it.
Item == work[idx]
RouterName == GetD(Item.endpoint_spec, "routerName", None)
Client == gNMIClient(RouterName, Item.endpoint_spec, Item.slice_spec)
ServiceType == GetD(spec, "serviceType", None)

\* "if not router_name: continue": the first item at or after i that has a
\* router name, Len(w) + 1 when there is none.
NextNamed(w, i) ==
    LET named == {j \in i..Len(w) :
                    GetD(w[j].endpoint_spec, "routerName", None) # None}
    IN  IF named = {} THEN Len(w) + 1
        ELSE CHOOSE j \in named : \A k \in named : j <= k

\* One item per endpoint, each with the intent itself as its slice spec.
PerEndpoint(s) ==
    LET endpoints == GetD(s, "endpoints", <<>>)
    IN  [i \in 1..Len(endpoints) |->
            [endpoint_spec |-> endpoints[i], slice_spec |-> s]]

\* How a handler ends: by returning (or patching) a status, or by an
\* exception that leaves it.
Return(st) ==
    /\ pc' = "done"
    /\ outcome' = "returned"
    /\ status' = st
    /\ UNCHANGED raised

Raise(e) ==
    /\ pc' = "done"
    /\ outcome' = "raised"
    /\ raised' = e
    /\ UNCHANGED status

\* A handler starts on a fresh frame: locals and history are reset.
Enter(h, s, w, first) ==
    /\ pc = "idle"
    /\ handler' = h
    /\ spec' = s
    /\ work' = w
    /\ idx' = first
    /\ provisioned_endpoints' = EmptyDict
    /\ overall_operational_status' = "UP"
    /\ success' = TRUE
    /\ is_drift_detected' = FALSE
    /\ observed_config' = EmptyDict
    /\ open_sessions' = {}
    /\ started' = {}
    /\ contacted' = {}
    /\ log' = <<>>
    /\ pushed' = EmptyDict
    /\ failures' = EmptyDict
    /\ oper_states' = EmptyDict

\* ------------------------------------------- provision_or_update_slice
InvalidServiceType(service_type) ==
    ("Status" :> "Error")
    @@ ("Message" :> <<"Invalid or missing 'serviceType' in spec. Must be VPLS, VPRN, or ePipe. Found: ",
                       service_type>>)

WrongEndpointCount(n) ==
    ("Status" :> "Error")
    @@ ("Message" :> <<"ePipe service requires exactly two endpoints. Found: ",
                       ToString(n)>>)

ProvisionError(service_type, router_name, e, pe) ==
    ("Status" :> "Error")
    @@ ("Message" :> <<"Error during provisioning for ", service_type, " on ",
                       router_name, ": ">> \o e)
    @@ ("ProvisionedEndpoints" :> pe)

ProvisionReady(service_type, pe) ==
    ("Status" :> "Ready")
    @@ ("ServiceType" :> service_type)
    @@ ("Message" :> <<"Initial provisioning complete at ", "now">>)
    @@ ("ProvisionedEndpoints" :> pe)

\* EpipePairs with each item paired with itself.
EpipePairs_SelfPaired(s) ==
    LET endpoints == GetD(s, "endpoints", <<>>)
    IN  [i \in 1..2 |->
            [endpoint_spec |-> endpoints[i],
             slice_spec |-> PutD(s, "remote_sdpId",
                                 GetD(endpoints[i], "sdpId", None))]]

\* Lines 40-43 and 51-52: the two ePipe items, each with a copy of the
\* intent carrying the other endpoint's sdpId as remote_sdpId.
EpipePairs(s) ==
    LET endpoints == GetD(s, "endpoints", <<>>)
        pairs == <<[local |-> endpoints[1], remote |-> endpoints[2]],
                   [local |-> endpoints[2], remote |-> endpoints[1]]>>
    IN  [i \in 1..2 |->
            [endpoint_spec |-> pairs[i].local,
             slice_spec |-> PutD(s, "remote_sdpId",
                                 GetD(pairs[i].remote, "sdpId", None))]]

\* ValidServiceType checking only that a serviceType is given.
ValidServiceType_AnyGiven(service_type) == service_type # None

\* Lines 21-26: the serviceType pre-check.
ValidServiceType(service_type) == service_type \in {"VPLS", "VPRN", "ePipe"}

\* Lines 19-43, 68-70: the handler's entry, up to the first item's client.
provision_or_update_slice(s) ==
    LET service_type == GetD(s, "serviceType", None)
        endpoints == GetD(s, "endpoints", <<>>)
    IN  IF ~ValidServiceType(service_type)
        THEN /\ Enter("provision", s, <<>>, 0)
             /\ Return(InvalidServiceType(service_type))
        ELSE IF service_type = "ePipe"
        THEN IF Len(endpoints) # 2
             THEN /\ Enter("provision", s, <<>>, 0)
                  /\ Return(WrongEndpointCount(Len(endpoints)))
             ELSE /\ Enter("provision", s, EpipePairs(s), 1)
                  /\ pc' = "client"
                  /\ outcome' = "none"
                  /\ UNCHANGED <<status, raised>>
        ELSE LET w == PerEndpoint(s)
                 first == NextNamed(w, 1)
             IN  /\ Enter("provision", s, w, first)
                 /\ IF first > Len(w)
                    THEN Return(ProvisionReady(service_type, EmptyDict))
                    ELSE /\ pc' = "client"
                         /\ outcome' = "none"
                         /\ UNCHANGED <<status, raised>>

\* The item after this one: ePipe processes both pairs, the other service
\* types skip endpoints without a router name.
AfterItem ==
    IF ServiceType = "ePipe" THEN idx + 1 ELSE NextNamed(work, idx + 1)

\* ProvisionExcept going on with the next item instead of returning.
ProvisionExcept_Continue(e) ==
    LET pe == PutD(provisioned_endpoints, RouterName, <<"Error: ">> \o e)
    IN  /\ provisioned_endpoints' = pe
        /\ failures' = PutD(failures, idx, e)
        /\ idx' = AfterItem
        /\ IF AfterItem > Len(work)
           THEN Return(ProvisionError(ServiceType, RouterName, e, pe))
           ELSE /\ pc' = "client"
                /\ UNCHANGED <<outcome, status, raised>>

\* Lines 60-64, 79-83: the except branch ends the pass with an Error status.
ProvisionExcept(e) ==
    LET pe == PutD(provisioned_endpoints, RouterName, <<"Error: ">> \o e)
    IN  /\ provisioned_endpoints' = pe
        /\ failures' = PutD(failures, idx, e)
        /\ Return(ProvisionError(ServiceType, RouterName, e, pe))
        /\ UNCHANGED idx

\* Lines 58-59, 76-77, 86-96: the item is recorded and the loop goes on, or
\* the handler returns Ready after the last item.
ProvisionDone ==
    LET pe == PutD(provisioned_endpoints, RouterName,
                   <<ServiceType, " Provisioned">>)
    IN  /\ provisioned_endpoints' = pe
        /\ idx' = AfterItem
        /\ UNCHANGED failures
        /\ IF AfterItem > Len(work)
           THEN Return(ProvisionReady(ServiceType, pe))
           ELSE /\ pc' = "client"
                /\ UNCHANGED <<outcome, status, raised>>

\* Lines 54, 72: gNMIClient(...) resolves the credentials outside the try;
\* a missing variable raises ValueError out of the handler.
ProvisionClient ==
    /\ handler = "provision"
    /\ pc = "client"
    /\ started' = started \cup {idx}
    /\ log' = <<"creds">>
    /\ \E creds_found \in CredentialLookups(RouterName) :
          IF creds_found
          THEN /\ pc' = "connect"
               /\ UNCHANGED <<outcome, status, raised, failures>>
          ELSE /\ Raise(MissingCredentials(RouterName))
               /\ failures' = PutD(failures, idx, MissingCredentials(RouterName))
    /\ UNCHANGED <<handler, spec, work, idx, provisioned_endpoints,
                   overall_operational_status, success, is_drift_detected,
                   observed_config, open_sessions, contacted, pushed,
                   oper_states>>

\* apply_config lines 176-186: render the updates, then enter the session.
ProvisionConnect ==
    /\ handler = "provision"
    /\ pc = "connect"
    /\ IF ~Supported(Client.service_type)
       THEN /\ ProvisionExcept(UnsupportedServiceType(Client))
            /\ UNCHANGED <<open_sessions, contacted, log>>
       ELSE /\ contacted' = contacted \cup {idx}
            /\ log' = Append(log, "connect")
            /\ \E connected \in BOOLEAN :
                  IF connected
                  THEN /\ open_sessions' = open_sessions \cup {idx}
                       /\ pc' = "set"
                       /\ UNCHANGED <<idx, provisioned_endpoints, failures,
                                      outcome, status, raised>>
                  ELSE /\ ProvisionExcept(ConnectFailed)
                       /\ UNCHANGED open_sessions
    /\ UNCHANGED <<handler, spec, work, overall_operational_status, success,
                   is_drift_detected, observed_config, started, pushed,
                   oper_states>>

\* A Set issued on a bare client object instead of inside the `with` block:
\* the session is closed after a good answer only.
ProvisionSet_CloseOnSuccessOnly ==
    /\ handler = "provision"
    /\ pc = "set"
    /\ log' = Append(log, "set")
    /\ pushed' = PutD(pushed, idx, Updates(Client))
    /\ \E response \in {"ok", "error", "raise"} :
          CASE response = "ok" ->
                 /\ open_sessions' = open_sessions \ {idx}
                 /\ ProvisionDone
            [] response = "error" ->
                 /\ UNCHANGED open_sessions
                 /\ ProvisionExcept(SetRpcFailed(Client))
            [] response = "raise" ->
                 /\ UNCHANGED open_sessions
                 /\ ProvisionExcept(RpcFailed)
    /\ UNCHANGED <<handler, spec, work, overall_operational_status, success,
                   is_drift_detected, observed_config, started, contacted,
                   oper_states>>

\* apply_config lines 187-193: Set inside the session, which closes on exit.
ProvisionSet ==
    /\ handler = "provision"
    /\ pc = "set"
    /\ log' = Append(log, "set")
    /\ pushed' = PutD(pushed, idx, Updates(Client))
    /\ open_sessions' = open_sessions \ {idx}
    /\ \E response \in {"ok", "error", "raise"} :
          CASE response = "ok" -> ProvisionDone
            [] response = "error" -> ProvisionExcept(SetRpcFailed(Client))
            [] response = "raise" -> ProvisionExcept(RpcFailed)
    /\ UNCHANGED <<handler, spec, work, overall_operational_status, success,
                   is_drift_detected, observed_config, started, contacted,
                   oper_states>>

\* ------------------------------------------------- drift_detection_check
Range(q) == {q[i] : i \in DOMAIN q}
Count(q, x) == Cardinality({i \in DOMAIN q : q[i] = x})

\* What get_config hands back: a structured document, or the string "{}".
Document(d) == [type |-> "dict", value |-> d]
EmptyJsonString == [type |-> "str", value |-> EmptyDict]

\* Structured documents a device answers a configuration Get with.
InSyncDocument(c) ==
    ("nokia-conf:description" :> c.description)
    @@ ("nokia-conf:admin-state" :> GetD(c.slice_spec, "adminState", "enable"))
    @@ ("nokia-conf:sap" :> <<("sap-id" :> SapId(c))>>)

DriftedDocument(c) ==
    ("nokia-conf:description" :> <<"changed by hand">>) @@ InSyncDocument(c)

\* What a device holds after a successful Set of this client's document and
\* nothing else: the document of apply_config, as pushed.
StoredDocument(c) == Updates(c)[2]

\* JSON_IETF name of a top-level leaf or list of the pushed document.
VendorKey(k) ==
    CASE k = "admin-state" -> "nokia-conf:admin-state"
      [] k = "description" -> "nokia-conf:description"
      [] k = "customer" -> "nokia-conf:customer"
      [] k = "service-id" -> "nokia-conf:service-id"
      [] k = "sap" -> "nokia-conf:sap"
      [] k = "mesh-sdp" -> "nokia-conf:mesh-sdp"
      [] k = "spoke-sdp" -> "nokia-conf:spoke-sdp"
      [] k = "router-id" -> "nokia-conf:router-id"
      [] k = "interface" -> "nokia-conf:interface"
      [] k = "bgp-ipvpn" -> "nokia-conf:bgp-ipvpn"

\* The stored document as a JSON_IETF Get returns it: the same content, its
\* top-level names carrying the module prefix check_for_drift reads.
VendorDocument(c) ==
    LET stored == StoredDocument(c)
    IN  [n \in {VendorKey(k) : k \in DOMAIN stored} |->
            stored[CHOOSE k \in DOMAIN stored : VendorKey(k) = n]]

\* The replies of the configuration Get (lines 222-229): a gRPC error, a
\* reply without notification or update entries, a reply whose first update
\* is empty, or a reply carrying a document.
GetReplies(c) ==
    {[kind |-> "raise"], [kind |-> "malformed"], [kind |-> "no_update"]}
    \cup {[kind |-> "val", val |-> d] :
            d \in {InSyncDocument(c), DriftedDocument(c), EmptyDict}
                  \cup IF Supported(c.service_type)
                       THEN {StoredDocument(c), VendorDocument(c)}
                       ELSE {}}

\* A detector that compares the whole SAP list instead of looking the
\* desired SAP up in it.
check_for_drift_WholeSapList(c, observed) ==
    \/ GetD(observed, "nokia-conf:description", NoneT) # c.description
    \/ GetD(observed, "nokia-conf:admin-state", None)
          # GetD(c.slice_spec, "adminState", "enable")
    \/ GetD(observed, "nokia-conf:sap", <<>>) # <<("sap-id" :> SapId(c))>>

\* check_for_drift on a structured document (lines 244-274).
check_for_drift(c, observed) ==
    LET desired_description == c.description
        observed_description == GetD(observed, "nokia-conf:description", NoneT)
        desired_admin_state == GetD(c.slice_spec, "adminState", "enable")
        observed_admin_state == GetD(observed, "nokia-conf:admin-state", None)
        desired_sap == SapId(c)
        observed_saps == GetD(observed, "nokia-conf:sap", <<>>)
        sap_found == \E i \in DOMAIN observed_saps :
                        GetD(observed_saps[i], "sap-id", NoneT) = desired_sap
    IN  \/ observed_description # desired_description
        \/ observed_admin_state # desired_admin_state
        \/ ~sap_found

\* str.upper() on the operational states that occur.
Upper(s) ==
    CASE s = "up" -> "UP"
      [] s = "down" -> "DOWN"
      [] OTHER -> s

\* Lines 148-153: the status the timer handler patches.
DriftStatus(overall, pe) ==
    ("Status" :> IF overall # "ERROR" THEN "Ready" ELSE "Error")
    @@ ("OperationalStatus" :> overall)
    @@ ("Message" :> <<"Periodic drift check completed. Status: ", overall,
                       " at ", "now">>)
    @@ ("ProvisionedEndpoints" :> pe)

\* Lines 107-120: the handler's entry, up to the first named endpoint.
drift_detection_check(s) ==
    LET w == PerEndpoint(s)
        first == NextNamed(w, 1)
    IN  /\ Enter("drift", s, w, first)
        /\ IF first > Len(w)
           THEN Return(DriftStatus("UP", EmptyDict))
           ELSE /\ pc' = "client"
                /\ outcome' = "none"
                /\ UNCHANGED <<status, raised>>

\* Lines 118-120, 147-157: on to the next named endpoint, or patch the
\* status when the loop is over.
DriftAdvance(overall, pe) ==
    LET n == NextNamed(work, idx + 1)
    IN  /\ idx' = n
        /\ IF n > Len(work)
           THEN Return(DriftStatus(overall, pe))
           ELSE /\ pc' = "client"
                /\ UNCHANGED <<outcome, status, raised>>

\* Lines 141-145: the except branch records the error and goes on.
DriftExcept(e) ==
    LET pe == PutD(provisioned_endpoints, RouterName,
                   <<"Error during drift check: ">> \o e)
    IN  /\ provisioned_endpoints' = pe
        /\ overall_operational_status' = "ERROR"
        /\ failures' = PutD(failures, idx, e)
        /\ DriftAdvance("ERROR", pe)

\* Line 122: gNMIClient(...) resolves the credentials outside the try.
DriftClient ==
    /\ handler = "drift"
    /\ pc = "client"
    /\ started' = started \cup {idx}
    /\ log' = <<"creds">>
    /\ is_drift_detected' = FALSE
    /\ \E creds_found \in CredentialLookups(RouterName) :
          IF creds_found
          THEN /\ pc' = "get_connect"
               /\ UNCHANGED <<outcome, status, raised, failures>>
          ELSE /\ Raise(MissingCredentials(RouterName))
               /\ failures' = PutD(failures, idx, MissingCredentials(RouterName))
    /\ UNCHANGED <<handler, spec, work, idx, provisioned_endpoints,
                   overall_operational_status, success, observed_config,
                   open_sessions, contacted, pushed, oper_states>>

\* get_config line 218: enter the session.
DriftGetConnect ==
    /\ handler = "drift"
    /\ pc = "get_connect"
    /\ contacted' = contacted \cup {idx}
    /\ log' = Append(log, "connect")
    /\ \E connected \in BOOLEAN :
          IF connected
          THEN /\ open_sessions' = open_sessions \cup {idx}
               /\ pc' = "get"
               /\ UNCHANGED <<idx, provisioned_endpoints,
                              overall_operational_status, failures, outcome,
                              status, raised>>
          ELSE /\ DriftExcept(ConnectFailed)
               /\ UNCHANGED open_sessions
    /\ UNCHANGED <<handler, spec, work, success, is_drift_detected,
                   observed_config, started, pushed, oper_states>>

\* get_config lines 219-229: the Get inside the session, which closes on exit.
DriftGet ==
    /\ handler = "drift"
    /\ pc = "get"
    /\ open_sessions' = open_sessions \ {idx}
    /\ IF Client.service_type = None
       THEN /\ DriftExcept(NoneHasNoLower)
            /\ UNCHANGED <<log, observed_config>>
       ELSE /\ log' = Append(log, "get")
            /\ \E reply \in GetReplies(Client) :
                  CASE reply.kind = "raise" ->
                         /\ DriftExcept(RpcFailed)
                         /\ UNCHANGED observed_config
                    [] reply.kind = "malformed" ->
                         /\ DriftExcept(MalformedResponse)
                         /\ UNCHANGED observed_config
                    [] reply.kind = "no_update" ->
                         /\ observed_config' = EmptyJsonString
                         /\ pc' = "check"
                         /\ UNCHANGED <<idx, provisioned_endpoints,
                                        overall_operational_status, failures,
                                        outcome, status, raised>>
                    [] reply.kind = "val" ->
                         /\ observed_config' = Document(reply.val)
                         /\ pc' = "check"
                         /\ UNCHANGED <<idx, provisioned_endpoints,
                                        overall_operational_status, failures,
                                        outcome, status, raised>>
    /\ UNCHANGED <<handler, spec, work, success, is_drift_detected, started,
                   contacted, pushed, oper_states>>

\* DriftCheck pushing the configuration whatever the drift check said.
DriftCheck_AlwaysApply ==
    /\ handler = "drift"
    /\ pc = "check"
    /\ log' = Append(log, "check")
    /\ IF observed_config.type = "str"
       THEN /\ DriftExcept(StrHasNoGet)
            /\ UNCHANGED is_drift_detected
       ELSE /\ is_drift_detected' = check_for_drift(Client, observed_config.value)
            /\ pc' = "apply_connect"
            /\ UNCHANGED <<idx, provisioned_endpoints,
                           overall_operational_status, failures, outcome,
                           status, raised>>
    /\ UNCHANGED <<handler, spec, work, success, observed_config,
                   open_sessions, started, contacted, pushed, oper_states>>

\* Lines 127-134: the drift decision.  observed_config.get on the string
\* "{}" raises AttributeError.
DriftCheck ==
    /\ handler = "drift"
    /\ pc = "check"
    /\ log' = Append(log, "check")
    /\ IF observed_config.type = "str"
       THEN /\ DriftExcept(StrHasNoGet)
            /\ UNCHANGED is_drift_detected
       ELSE /\ is_drift_detected' = check_for_drift(Client, observed_config.value)
            /\ IF is_drift_detected'
               THEN /\ pc' = "apply_connect"
                    /\ UNCHANGED provisioned_endpoints
               ELSE /\ pc' = "oper_connect"
                    /\ provisioned_endpoints' =
                          PutD(provisioned_endpoints, RouterName,
                               <<ServiceType, " InSync">>)
            /\ UNCHANGED <<idx, overall_operational_status, failures, outcome,
                           status, raised>>
    /\ UNCHANGED <<handler, spec, work, success, observed_config,
                   open_sessions, started, contacted, pushed, oper_states>>

\* apply_config lines 176-186 under "Self-heal": render, enter the session.
DriftApplyConnect ==
    /\ handler = "drift"
    /\ pc = "apply_connect"
    /\ IF ~Supported(Client.service_type)
       THEN /\ DriftExcept(UnsupportedServiceType(Client))
            /\ UNCHANGED <<open_sessions, contacted, log>>
       ELSE /\ contacted' = contacted \cup {idx}
            /\ log' = Append(log, "connect")
            /\ \E connected \in BOOLEAN :
                  IF connected
                  THEN /\ open_sessions' = open_sessions \cup {idx}
                       /\ pc' = "set"
                       /\ UNCHANGED <<idx, provisioned_endpoints,
                                      overall_operational_status, failures,
                                      outcome, status, raised>>
                  ELSE /\ DriftExcept(ConnectFailed)
                       /\ UNCHANGED open_sessions
    /\ UNCHANGED <<handler, spec, work, success, is_drift_detected,
                   observed_config, started, pushed, oper_states>>

\* A Set that is tried a second time when the router answers the first one
\* with an error.
DriftApplySet_RetryOnce ==
    /\ handler = "drift"
    /\ pc = "set"
    /\ log' = Append(log, "set")
    /\ pushed' = PutD(pushed, idx, Updates(Client))
    /\ open_sessions' = open_sessions \ {idx}
    /\ \E response \in {"ok", "error", "raise"} :
          CASE response = "ok" ->
                 /\ provisioned_endpoints' =
                       PutD(provisioned_endpoints, RouterName,
                            <<ServiceType, " Reconciled">>)
                 /\ pc' = "oper_connect"
                 /\ UNCHANGED <<idx, overall_operational_status, failures,
                                outcome, status, raised>>
            [] response = "error" ->
                 IF Count(log, "set") = 0
                 THEN /\ pc' = "apply_connect"
                      /\ UNCHANGED <<idx, provisioned_endpoints,
                                     overall_operational_status, failures,
                                     outcome, status, raised>>
                 ELSE DriftExcept(SetRpcFailed(Client))
            [] response = "raise" -> DriftExcept(RpcFailed)
    /\ UNCHANGED <<handler, spec, work, success, is_drift_detected,
                   observed_config, started, contacted, oper_states>>

\* apply_config lines 187-193 and line 132: Set, then record Reconciled.
DriftApplySet ==
    /\ handler = "drift"
    /\ pc = "set"
    /\ log' = Append(log, "set")
    /\ pushed' = PutD(pushed, idx, Updates(Client))
    /\ open_sessions' = open_sessions \ {idx}
    /\ \E response \in {"ok", "error", "raise"} :
          CASE response = "ok" ->
                 /\ provisioned_endpoints' =
                       PutD(provisioned_endpoints, RouterName,
                            <<ServiceType, " Reconciled">>)
                 /\ pc' = "oper_connect"
                 /\ UNCHANGED <<idx, overall_operational_status, failures,
                                outcome, status, raised>>
            [] response = "error" -> DriftExcept(SetRpcFailed(Client))
            [] response = "raise" -> DriftExcept(RpcFailed)
    /\ UNCHANGED <<handler, spec, work, success, is_drift_detected,
                   observed_config, started, contacted, oper_states>>

\* get_operational_status line 281: enter the session.
DriftOperConnect ==
    /\ handler = "drift"
    /\ pc = "oper_connect"
    /\ contacted' = contacted \cup {idx}
    /\ log' = Append(log, "connect")
    /\ \E connected \in BOOLEAN :
          IF connected
          THEN /\ open_sessions' = open_sessions \cup {idx}
               /\ pc' = "oper"
               /\ UNCHANGED <<idx, provisioned_endpoints,
                              overall_operational_status, failures, outcome,
                              status, raised>>
          ELSE /\ DriftExcept(ConnectFailed)
               /\ UNCHANGED open_sessions
    /\ UNCHANGED <<handler, spec, work, success, is_drift_detected,
                   observed_config, started, pushed, oper_states>>

\* get_operational_status lines 283-295 and lines 137-139: the state Get,
\* "UNKNOWN" when the reply has no oper-state, folded into the aggregate.
DriftOper ==
    /\ handler = "drift"
    /\ pc = "oper"
    /\ log' = Append(log, "oper")
    /\ open_sessions' = open_sessions \ {idx}
    /\ \E reply \in {"up", "down", "missing", "raise"} :
          IF reply = "raise"
          THEN /\ DriftExcept(RpcFailed)
               /\ UNCHANGED oper_states
          ELSE LET op_status == IF reply = "missing" THEN "UNKNOWN"
                                ELSE Upper(reply)
                   overall == IF op_status # "UP" THEN "DOWN"
                              ELSE overall_operational_status
               IN  /\ oper_states' = PutD(oper_states, idx, op_status)
                   /\ overall_operational_status' = overall
                   /\ DriftAdvance(overall, provisioned_endpoints)
                   /\ UNCHANGED <<provisioned_endpoints, failures>>
    /\ UNCHANGED <<handler, spec, work, success, is_drift_detected,
                   observed_config, started, contacted, pushed>>

\* ------------------------------------------------- cleanup_network_slice
\* Lines 188-191: the handler's result.
CleanupResult(service_type, ok) ==
    ("success" :> ok)
    @@ ("message" :>
          IF ok THEN <<service_type, " service successfully de-provisioned.">>
          ELSE <<"Cleanup of ", service_type,
                 " completed with errors on some devices.">>)

\* Lines 165-174: the handler's entry, up to the first named endpoint.
cleanup_network_slice(s) ==
    LET w == PerEndpoint(s)
        first == NextNamed(w, 1)
    IN  /\ Enter("cleanup", s, w, first)
        /\ IF first > Len(w)
           THEN Return(CleanupResult(GetD(s, "serviceType", "Unknown"), TRUE))
           ELSE /\ pc' = "client"
                /\ outcome' = "none"
                /\ UNCHANGED <<status, raised>>

\* Lines 171-174, 188-191: on to the next named endpoint, or return.
CleanupAdvance(ok) ==
    LET n == NextNamed(work, idx + 1)
    IN  /\ idx' = n
        /\ IF n > Len(work)
           THEN Return(CleanupResult(GetD(spec, "serviceType", "Unknown"), ok))
           ELSE /\ pc' = "client"
                /\ UNCHANGED <<outcome, status, raised>>

\* CleanupExcept returning at the first failure.
CleanupExcept_Abort(e) ==
    /\ success' = FALSE
    /\ failures' = PutD(failures, idx, e)
    /\ UNCHANGED idx
    /\ Return(CleanupResult(GetD(spec, "serviceType", "Unknown"), FALSE))

\* Lines 184-186: the except branch clears the flag and goes on.
CleanupExcept(e) ==
    /\ success' = FALSE
    /\ failures' = PutD(failures, idx, e)
    /\ CleanupAdvance(FALSE)

\* A client that dials the router first and looks its credentials up
\* afterwards.
CleanupClient_DialBeforeLookup ==
    /\ handler = "cleanup"
    /\ pc = "client"
    /\ started' = started \cup {idx}
    /\ contacted' = contacted \cup {idx}
    /\ log' = <<"connect", "creds">>
    /\ \E creds_found \in CredentialLookups(RouterName) :
          IF creds_found
          THEN /\ pc' = "connect"
               /\ UNCHANGED <<idx, success, failures, outcome, status, raised>>
          ELSE CleanupExcept(MissingCredentials(RouterName))
    /\ UNCHANGED <<handler, spec, work, provisioned_endpoints,
                   overall_operational_status, is_drift_detected,
                   observed_config, open_sessions, pushed, oper_states>>

\* Line 180: gNMIClient(...) resolves the credentials inside the try.
CleanupClient ==
    /\ handler = "cleanup"
    /\ pc = "client"
    /\ started' = started \cup {idx}
    /\ log' = <<"creds">>
    /\ \E creds_found \in CredentialLookups(RouterName) :
          IF creds_found
          THEN /\ pc' = "connect"
               /\ UNCHANGED <<idx, success, failures, outcome, status, raised>>
          ELSE CleanupExcept(MissingCredentials(RouterName))
    /\ UNCHANGED <<handler, spec, work, provisioned_endpoints,
                   overall_operational_status, is_drift_detected,
                   observed_config, open_sessions, contacted, pushed,
                   oper_states>>

\* delete_config line 199: enter the session.
CleanupConnect ==
    /\ handler = "cleanup"
    /\ pc = "connect"
    /\ contacted' = contacted \cup {idx}
    /\ log' = Append(log, "connect")
    /\ \E connected \in BOOLEAN :
          IF connected
          THEN /\ open_sessions' = open_sessions \cup {idx}
               /\ pc' = "delete"
               /\ UNCHANGED <<idx, success, failures, outcome, status, raised>>
          ELSE /\ CleanupExcept(ConnectFailed)
               /\ UNCHANGED open_sessions
    /\ UNCHANGED <<handler, spec, work, provisioned_endpoints,
                   overall_operational_status, is_drift_detected,
                   observed_config, started, pushed, oper_states>>

\* delete_config lines 200-212: the delete Set inside the session.
CleanupDelete ==
    /\ handler = "cleanup"
    /\ pc = "delete"
    /\ open_sessions' = open_sessions \ {idx}
    /\ IF Client.service_type = None
       THEN /\ CleanupExcept(NoneHasNoLower)
            /\ UNCHANGED log
       ELSE /\ log' = Append(log, "delete")
            /\ \E response \in {"ok", "error", "raise"} :
                  CASE response = "ok" ->
                         /\ CleanupAdvance(success)
                         /\ UNCHANGED <<success, failures>>
                    [] response = "error" ->
                         CleanupExcept(DeleteRpcFailed(Client))
                    [] response = "raise" -> CleanupExcept(RpcFailed)
    /\ UNCHANGED <<handler, spec, work, provisioned_endpoints,
                   overall_operational_status, is_drift_detected,
                   observed_config, started, contacted, pushed, oper_states>>

\* The handler's frame is discarded once it has ended; the framework then
\* delivers the next event.
NextEvent ==
    /\ pc = "done"
    /\ pc' = "idle"
    /\ handler' = "none"
    /\ spec' = EmptyDict
    /\ work' = <<>>
    /\ idx' = 0
    /\ provisioned_endpoints' = EmptyDict
    /\ overall_operational_status' = "UP"
    /\ success' = TRUE
    /\ is_drift_detected' = FALSE
    /\ observed_config' = EmptyDict
    /\ open_sessions' = {}
    /\ outcome' = "none"
    /\ status' = EmptyDict
    /\ raised' = <<>>
    /\ started' = {}
    /\ contacted' = {}
    /\ log' = <<>>
    /\ pushed' = EmptyDict
    /\ failures' = EmptyDict
    /\ oper_states' = EmptyDict

Next ==
    \/ pc = "idle" /\ \E s \in ProvisionIntents : provision_or_update_slice(s)
    \/ ProvisionClient
    \/ ProvisionConnect
    \/ ProvisionSet
    \/ pc = "idle" /\ \E s \in BestEffortIntents : drift_detection_check(s)
    \/ DriftClient
    \/ DriftGetConnect
    \/ DriftGet
    \/ DriftCheck
    \/ DriftApplyConnect
    \/ DriftApplySet
    \/ DriftOperConnect
    \/ DriftOper
    \/ pc = "idle" /\ \E s \in BestEffortIntents : cleanup_network_slice(s)
    \/ CleanupClient
    \/ CleanupConnect
    \/ CleanupDelete
    \/ NextEvent

Spec == Init /\ [][Next]_vars


\* ------------------------------------------- check_for_drift on its own
\* Intents and the endpoint the detector is built for.
DetectorIntents ==
    {("serviceType" :> "VPLS") @@ ("serviceId" :> ServiceId) @@ a @@ d :
        a \in Opt("adminState", {"enable", "disable"}),
        d \in Opt("description", {<<"custom">>})}

DetectorEndpoint == ("routerName" :> "SR1") @@ EndpointBase

\* Structured documents handed to the detector: each field as desired,
\* different or missing, and a SAP list of up to MaxSaps entries among the
\* desired SAP, another SAP and an entry without sap-id.
ObservedDocuments(c) ==
    {d @@ a @@ p :
        d \in Opt("nokia-conf:description", {c.description, <<"changed by hand">>}),
        a \in Opt("nokia-conf:admin-state", {"enable", "disable"}),
        p \in Opt("nokia-conf:sap",
                  SeqsUpTo({("sap-id" :> SapId(c)),
                            ("sap-id" :> <<"1/1/2", ":", "20">>),
                            EmptyDict}, MaxSaps))}

InitDetector ==
    /\ pc = "call"
    /\ handler = "check_for_drift"
    /\ spec \in DetectorIntents
    /\ work = <<[endpoint_spec |-> DetectorEndpoint, slice_spec |-> spec]>>
    /\ idx = 1
    /\ observed_config \in
          {Document(d) :
              d \in ObservedDocuments(gNMIClient("SR1", DetectorEndpoint, spec))}
    /\ provisioned_endpoints = EmptyDict
    /\ overall_operational_status = "UP"
    /\ success = TRUE
    /\ is_drift_detected = FALSE
    /\ open_sessions = {}
    /\ outcome = "none"
    /\ status = EmptyDict
    /\ raised = <<>>
    /\ started = {}
    /\ contacted = {}
    /\ log = <<>>
    /\ pushed = EmptyDict
    /\ failures = EmptyDict
    /\ oper_states = EmptyDict

\* client.check_for_drift(spec, observed_config) and its return value.
DetectorCall ==
    /\ handler = "check_for_drift"
    /\ pc = "call"
    /\ is_drift_detected' = check_for_drift(Client, observed_config.value)
    /\ pc' = "return"
    /\ UNCHANGED <<handler, spec, work, idx, provisioned_endpoints,
                   overall_operational_status, success, observed_config,
                   open_sessions, outcome, status, raised, history>>

NextDetector == DetectorCall

SpecDetector == InitDetector /\ [][NextDetector]_vars

\* ----------------------------------------- _get_vpls_payload on its own
\* VPLS intents with vplsType absent, 'mesh-sdp' or 'spoke-sdp', and the
\* endpoints they are rendered for.
RenderIntents ==
    {("serviceType" :> "VPLS") @@ ("serviceId" :> ServiceId) @@ m @@ a @@ n :
        m \in Opt("vplsType", {"mesh-sdp", "spoke-sdp"}),
        a \in Opt("adminState", {"enable", "disable"}),
        n \in Opt("serviceName", {<<"blue">>})}

RenderEndpoints == EndpointsOver({"SR1", "SR2"}, SdpIds)

InitRender ==
    /\ pc = "call"
    /\ handler = "_get_vpls_payload"
    /\ spec \in RenderIntents
    /\ work \in {<<[endpoint_spec |-> e, slice_spec |-> spec]>> :
                    e \in RenderEndpoints}
    /\ idx = 1
    /\ observed_config = EmptyDict
    /\ provisioned_endpoints = EmptyDict
    /\ overall_operational_status = "UP"
    /\ success = TRUE
    /\ is_drift_detected = FALSE
    /\ open_sessions = {}
    /\ outcome = "none"
    /\ status = EmptyDict
    /\ raised = <<>>
    /\ started = {}
    /\ contacted = {}
    /\ log = <<>>
    /\ pushed = EmptyDict
    /\ failures = EmptyDict
    /\ oper_states = EmptyDict

\* client._get_vpls_payload() and the updates it returns.
RenderCall ==
    /\ handler = "_get_vpls_payload"
    /\ pc = "call"
    /\ pushed' = PutD(pushed, idx, get_vpls_payload(Client))
    /\ pc' = "return"
    /\ UNCHANGED <<handler, spec, work, idx, provisioned_endpoints,
                   overall_operational_status, success, is_drift_detected,
                   observed_config, open_sessions, outcome, status, raised,
                   started, contacted, log, failures, oper_states>>

NextRender == RenderCall

SpecRender == InitRender /\ [][NextRender]_vars

\* ------------------------------------------------------------------ claims
RouterOf(i) == GetD(work[i].endpoint_spec, "routerName", None)
NamedItems == {i \in 1..Len(work) : RouterOf(i) # None}
Endpoints == GetD(spec, "endpoints", <<>>)
Outcome(r) == GetD(provisioned_endpoints, r, <<"absent">>)
IsErrorOutcome(v) == v[1] \in {"Error: ", "Error during drift check: "}
EndsWith(q, e) ==
    /\ Len(q) >= Len(e)
    /\ SubSeq(q, Len(q) - Len(e) + 1, Len(q)) = e
\* The failure came out of apply_config (the push), not out of the
\* credential lookup that precedes it.
PushFailure(e) ==
    e \in {ConnectFailed, RpcFailed} \/ e[1] = "gNMI Set RPC failed to push config to "

\* C1: create/update is fail-fast.  Once a work item has failed the pass is
\* over and no later work item is started, contacted or pushed to; when the
\* failure is a failed push the handler returns Status=Error, the failing
\* router's entry is an Error entry, every earlier router still has its
\* Provisioned entry and no later router has an entry.
C1_FailFast ==
    (handler = "provision" /\ failures # EmptyDict) =>
        LET f == CHOOSE i \in DOMAIN failures : TRUE
        IN  /\ DOMAIN failures = {f}
            /\ pc = "done"
            /\ \A j \in 1..Len(work) :
                  j > f => /\ j \notin started
                           /\ j \notin contacted
                           /\ j \notin DOMAIN pushed
            /\ PushFailure(failures[f]) =>
                  /\ outcome = "returned"
                  /\ status["Status"] = "Error"
                  /\ status["ProvisionedEndpoints"] = provisioned_endpoints
                  /\ Outcome(RouterOf(f)) = <<"Error: ">> \o failures[f]
                  /\ \A j \in started :
                        (j < f /\ \A k \in (j + 1)..f : RouterOf(k) # RouterOf(j))
                            => Outcome(RouterOf(j)) = <<ServiceType, " Provisioned">>
                  /\ \A j \in 1..Len(work) :
                        (j > f /\ \A k \in started : RouterOf(k) # RouterOf(j))
                            => RouterOf(j) \notin DOMAIN provisioned_endpoints

\* C1 witness: [A, B, C] on three routers, A pushed, B's Set answered with
\* an error, the pass over.
C1_Witness ==
    /\ handler = "provision"
    /\ pc = "done"
    /\ Len(work) = 3
    /\ {RouterOf(1), RouterOf(2), RouterOf(3)} = Routers
    /\ DOMAIN failures = {2}
    /\ failures[2] = <<"gNMI Set RPC failed to push config to ", RouterOf(2)>>
    /\ DOMAIN pushed = {1, 2}

\* C2: at the end of a periodic pass OperationalStatus is ERROR when some
\* endpoint's check raised, else DOWN when some endpoint reported a state
\* other than UP, else UP.
C2_Aggregation ==
    (handler = "drift" /\ pc = "done" /\ outcome = "returned") =>
        status["OperationalStatus"] =
            IF failures # EmptyDict THEN "ERROR"
            ELSE IF \E i \in DOMAIN oper_states : oper_states[i] # "UP"
                 THEN "DOWN"
                 ELSE "UP"

\* C3: each ePipe document carries the other endpoint's sdpId in its
\* spoke-sdp binding and not its own, for endpoints with distinct sdpIds.
C3_SymmetricDocuments ==
    (handler = "provision" /\ ServiceType = "ePipe") =>
        \A i \in DOMAIN pushed :
            LET own == Endpoints[i]
                other == Endpoints[3 - i]
                bind == pushed[i][2]["spoke-sdp"]["sdp-bind-id"]
            IN  ("sdpId" \in DOMAIN own /\ "sdpId" \in DOMAIN other
                    /\ own["sdpId"] # other["sdpId"])
                => (bind[1] = other["sdpId"] /\ bind[1] # own["sdpId"])

\* C4: a periodic pass checks every endpoint that has a router name whatever
\* failed before it, records an error outcome for each failing router and
\* ends by patching the status.
C4_BestEffortAlwaysEmits ==
    (handler = "drift" /\ pc = "done") =>
        /\ outcome = "returned"
        /\ started = NamedItems
        /\ \A i \in DOMAIN failures :
              (\A j \in started : j > i => RouterOf(j) # RouterOf(i))
                  => IsErrorOutcome(Outcome(RouterOf(i)))

\* C5: a work item failure of a create/update pass is reported through the
\* returned status: Status=Error, the message ends with the failure's own
\* message, the router's entry is an Error entry; no exception leaves the
\* handler.
C5_FailuresReported ==
    (handler = "provision" /\ failures # EmptyDict) =>
        \A f \in DOMAIN failures :
            /\ outcome = "returned"
            /\ status["Status"] = "Error"
            /\ EndsWith(status["Message"], failures[f])
            /\ IsErrorOutcome(GetD(status["ProvisionedEndpoints"], RouterOf(f),
                                   <<"absent">>))

\* C6: when the configuration Get hands back no configuration, the drift
\* check reports drift, and once the push has succeeded the router's
\* outcome is Reconciled.
NoConfiguration(o) == o = EmptyJsonString \/ o = Document(EmptyDict)

C6_EmptyIsDrift ==
    (handler = "drift" /\ "check" \in Range(log)
        /\ NoConfiguration(observed_config)) =>
        /\ is_drift_detected
        /\ pc \in {"oper_connect", "oper"} =>
              Outcome(RouterName) = <<ServiceType, " Reconciled">>

\* C7: a create/update pass on an intent whose serviceType is missing or
\* unsupported returns Status=Error with no credential lookup, no session
\* and no Get or Set, whatever the endpoint list.
C7_ValidationShortCircuits ==
    (handler = "provision" /\ ServiceType \notin {"VPLS", "VPRN", "ePipe"}) =>
        /\ pc = "done"
        /\ outcome = "returned"
        /\ status["Status"] = "Error"
        /\ started = {}
        /\ contacted = {}
        /\ open_sessions = {}
        /\ log = <<>>
        /\ pushed = EmptyDict

\* C7 witness: an unsupported type with a named endpoint, answered Error.
C7_Witness ==
    /\ handler = "provision"
    /\ pc = "done"
    /\ ServiceType = "L2VPN"
    /\ \E i \in DOMAIN Endpoints : "routerName" \in DOMAIN Endpoints[i]
    /\ status["Status"] = "Error"

\* C8: an ePipe intent with an endpoint count other than 2 is answered Error
\* with no device contact; with 2 endpoints there are exactly 2 work items,
\* item i local to endpoint i and carrying the other endpoint's sdpId as its
\* remote SDP id.
C8_EpipeExpansion ==
    (handler = "provision" /\ ServiceType = "ePipe") =>
        IF Len(Endpoints) # 2
        THEN /\ pc = "done"
             /\ outcome = "returned"
             /\ status["Status"] = "Error"
             /\ started = {}
             /\ contacted = {}
             /\ log = <<>>
        ELSE /\ Len(work) = 2
             /\ \A i \in 1..2 :
                   /\ work[i].endpoint_spec = Endpoints[i]
                   /\ work[i].slice_spec["remote_sdpId"] =
                         GetD(Endpoints[3 - i], "sdpId", None)

\* C8 witness: both items of a two-endpoint ePipe with sdpIds 1 and 2 ran.
C8_Witness ==
    /\ handler = "provision"
    /\ ServiceType = "ePipe"
    /\ Len(Endpoints) = 2
    /\ GetD(Endpoints[1], "sdpId", None) = "1"
    /\ GetD(Endpoints[2], "sdpId", None) = "2"
    /\ started = {1, 2}
    /\ pc = "done"
    /\ outcome = "returned"
    /\ status["Status"] = "Ready"

\* C9: a delete pass tries every endpoint that has a router name whatever
\* failed before it, never an endpoint without one, and returns success
\* exactly when no tried endpoint failed.
C9_DeleteBestEffort ==
    handler = "cleanup" =>
        /\ started \subseteq NamedItems
        /\ contacted \subseteq started
        /\ DOMAIN failures \subseteq started
        /\ pc = "done" =>
              /\ outcome = "returned"
              /\ started = NamedItems
              /\ status["success"] = (failures = EmptyDict)
              /\ status["success"] = success

\* C9 witness: two named endpoints, the first delete failed, the second was
\* still issued and succeeded, the pass returned failure.
C9_Witness ==
    /\ handler = "cleanup"
    /\ pc = "done"
    /\ Len(work) = 2
    /\ NamedItems = {1, 2}
    /\ DOMAIN failures = {1}
    /\ log = <<"creds", "connect", "delete">>
    /\ status["success"] = FALSE

\* C10: per endpoint of a periodic pass the Get precedes the drift check and
\* the drift check precedes any Set; with drift detected exactly one Set
\* carries the desired document and the router is recorded Reconciled;
\* without drift no Set is issued and the router is recorded InSync.
C10_DriftDecision ==
    handler = "drift" =>
        /\ Count(log, "set") <= 1
        /\ "check" \in Range(log) =>
              \E g, c \in DOMAIN log :
                  g < c /\ log[g] = "get" /\ log[c] = "check"
        /\ "set" \in Range(log) =>
              /\ is_drift_detected
              /\ \E c, t \in DOMAIN log :
                    c < t /\ log[c] = "check" /\ log[t] = "set"
        /\ pc \in {"oper_connect", "oper"} =>
              IF is_drift_detected
              THEN /\ Count(log, "set") = 1
                   /\ pushed[idx] = Updates(Client)
                   /\ Outcome(RouterName) = <<ServiceType, " Reconciled">>
              ELSE /\ Count(log, "set") = 0
                   /\ Outcome(RouterName) = <<ServiceType, " InSync">>

\* C10 witnesses: drift repaired by one Set.
C10_Witness ==
    /\ handler = "drift"
    /\ pc = "oper_connect"
    /\ is_drift_detected
    /\ log = <<"creds", "connect", "get", "check", "connect", "set">>
    /\ Outcome(RouterName) = <<ServiceType, " Reconciled">>

\* C11: device sessions never leak.  A session is open only while the
\* operation that opened it is inside its RPC step, it belongs to the work
\* item in hand, and there is never more than one; no session is open when
\* an endpoint's first step starts, between two operations, or once the
\* pass has ended, whatever way the operation was left.
C11_SessionsClosed ==
    /\ Cardinality(open_sessions) <= 1
    /\ open_sessions # {} =>
          /\ open_sessions = {idx}
          /\ pc \in {"set", "get", "oper", "delete"}
    /\ pc \in {"idle", "client", "connect", "get_connect", "check",
               "apply_connect", "oper_connect", "done"} => open_sessions = {}

\* C11 witness: a session was opened for a Set, the Set failed, the pass is
\* over and the session is gone.
C11_Witness ==
    /\ handler = "provision"
    /\ pc = "done"
    /\ log = <<"creds", "connect", "set">>
    /\ idx \in DOMAIN failures
    /\ failures[idx] \in {RpcFailed, SetRpcFailed(Client)}
    /\ open_sessions = {}

\* C12: a failed credential lookup precedes any network attempt.  A work
\* item whose lookup failed was never dialled and nothing was pushed to it,
\* in a create/update, a periodic and a delete pass alike; the lookup is the
\* first step of every work item and only started items are dialled.
C12_CredentialsFirst ==
    handler \in {"provision", "drift", "cleanup"} =>
        /\ \A i \in DOMAIN failures :
              failures[i] = MissingCredentials(RouterOf(i)) =>
                  /\ i \notin contacted
                  /\ i \notin DOMAIN pushed
                  /\ i \notin DOMAIN oper_states
        /\ contacted \subseteq started
        /\ log # <<>> => log[1] = "creds"
        /\ (pc = "done" /\ outcome = "raised"
                /\ raised[1] = "Missing credentials for ")
              => log = <<"creds">>

\* C12 witness: a delete pass over two routers, the first one's credentials
\* missing, the second one dialled.
C12_Witness ==
    /\ handler = "cleanup"
    /\ pc = "done"
    /\ DOMAIN failures = {1}
    /\ failures[1] = MissingCredentials(RouterOf(1))
    /\ contacted = {2}
    /\ RouterOf(1) # RouterOf(2)

\* C13: a create/update pass on a VPLS or VPRN intent whose endpoint list
\* is empty, or holds no endpoint with a router name, is a validation
\* failure: it ends with Status=Error, never with Status=Ready.
C13_NamedEndpointRequired ==
    (handler = "provision" /\ pc = "done" /\ outcome = "returned"
        /\ GetD(spec, "serviceType", None) \in {"VPLS", "VPRN"}
        /\ \A i \in DOMAIN Endpoints : "routerName" \notin DOMAIN Endpoints[i])
    => status["Status"] = "Error"

\* C14: end-to-end VPLS rendering.  For a VPLS intent whose endpoints are
\* written with the attribute names of the data model, every document the
\* create pass pushes is at /configure/service/vpls[service-name=<name>],
\* its SAP list is [{sap-id: "<interfaceName>:<vlanId>", admin-state:
\* "enable"}] and its mesh-sdp entry binds "<sdpId or 1000>:<serviceId>";
\* a pass that succeeds on one endpoint has pushed exactly one document.
C14_VplsRendering ==
    (handler = "provision" /\ GetD(spec, "serviceType", None) = "VPLS") =>
        /\ \A i \in DOMAIN pushed :
              LET ep == work[i].endpoint_spec
                  path == pushed[i][1]
                  doc == pushed[i][2]
              IN  "vlanId" \in DOMAIN ep =>
                    /\ path = <<"/configure/service/", "vpls", "[service-name=",
                                <<"VPLS", "_", spec["serviceId"]>>, "]">>
                    /\ doc["sap"] =
                          <<("sap-id" :> <<ep["interfaceName"], ":", ep["vlanId"]>>)
                            @@ ("admin-state" :> "enable")>>
                    /\ "mesh-sdp" \in DOMAIN doc
                    /\ doc["mesh-sdp"] =
                          <<("sdp-bind-id" :>
                                <<GetD(ep, "sdpId", "1000"), ":", spec["serviceId"]>>)>>
        /\ (pc = "done" /\ outcome = "returned" /\ status["Status"] = "Ready"
                /\ Len(Endpoints) = 1 /\ NamedItems = {1})
              => DOMAIN pushed = {1}

\* C15: the drift detector reports drift exactly when the observed
\* description differs from the desired one, or the observed admin-state
\* differs from the desired one, or the desired SAP id
\* "<interfaceName>:<vlan>" is not among the sap-ids of the observed SAP
\* list; SAPs beside the desired one make no difference.
C15_DriftIff ==
    (handler = "check_for_drift" /\ pc = "return") =>
        LET observed == observed_config.value
            Field(k) == IF k \in DOMAIN observed THEN <<observed[k]>> ELSE <<>>
            saps == IF "nokia-conf:sap" \in DOMAIN observed
                    THEN observed["nokia-conf:sap"] ELSE <<>>
            SapIds == {saps[i]["sap-id"] :
                          i \in {j \in DOMAIN saps : "sap-id" \in DOMAIN saps[j]}}
            desired_description ==
                IF "description" \in DOMAIN spec THEN spec["description"]
                ELSE <<"Service ", spec["serviceType"], " ", spec["serviceId"]>>
            desired_admin_state ==
                IF "adminState" \in DOMAIN spec THEN spec["adminState"]
                ELSE "enable"
            desired_sap ==
                <<DetectorEndpoint["interfaceName"], ":", DetectorEndpoint["vlanID"]>>
        IN  is_drift_detected <=>
                \/ Field("nokia-conf:description") # <<desired_description>>
                \/ Field("nokia-conf:admin-state") # <<desired_admin_state>>
                \/ desired_sap \notin SapIds

\* C15 witness: description and admin-state as desired, the desired SAP
\* second in a list of two, no drift reported.
C15_Witness ==
    /\ handler = "check_for_drift"
    /\ pc = "return"
    /\ ~is_drift_detected
    /\ Len(observed_config.value["nokia-conf:sap"]) = 2
    /\ observed_config.value["nokia-conf:sap"][1] = ("sap-id" :> <<"1/1/2", ":", "20">>)

\* C16: no internal retry.  A work item is given at most one credential
\* lookup and at most one of each RPC: one Set in a create/update pass, one
\* delete Set in a delete pass, one configuration Get, one Set and one
\* oper-state Get in a periodic pass; the pass only moves forward through
\* its work items.
C16_NoRetry ==
    /\ Count(log, "creds") <= 1
    /\ Count(log, "set") <= 1
    /\ Count(log, "delete") <= 1
    /\ Count(log, "get") <= 1
    /\ Count(log, "oper") <= 1
    /\ Count(log, "connect") <= Count(log, "get") + Count(log, "set")
                                + Count(log, "delete") + Count(log, "oper") + 1
    /\ handler = "provision" => Range(log) \subseteq {"creds", "connect", "set"}
    /\ handler = "cleanup" => Range(log) \subseteq {"creds", "connect", "delete"}
    /\ \A i \in started : i <= idx \/ pc = "done"

\* C16 witness: a periodic pass whose repairing Set was answered with an
\* error; the endpoint is given up after that one Set.
C16_Witness ==
    /\ handler = "drift"
    /\ pc = "done"
    /\ log = <<"creds", "connect", "get", "check", "connect", "set">>
    /\ \E i \in DOMAIN failures :
          failures[i] = <<"gNMI Set RPC failed to push config to ", RouterOf(i)>>

\* C17: the SDP binding of a rendered VPLS document follows the intent's
\* VPLS mode.  With the mode mesh (vplsType 'mesh-sdp') or not given the
\* document has a mesh-sdp list of one entry and no spoke-sdp; with the
\* mode spoke (vplsType 'spoke-sdp') it has a spoke-sdp list of one entry
\* and no mesh-sdp; the entry's sdp-bind-id is "<sdpId>:<serviceId>", the
\* sdpId being 1000 when the endpoint gives none.
C17_SdpKindFollowsMode ==
    (handler = "_get_vpls_payload" /\ pc = "return") =>
        LET doc == pushed[1][2]
            ep == work[1].endpoint_spec
            sdp_id == IF "sdpId" \in DOMAIN ep THEN ep["sdpId"] ELSE "1000"
            entry == ("sdp-bind-id" :> <<sdp_id, ":", spec["serviceId"]>>)
            mesh == "vplsType" \notin DOMAIN spec \/ spec["vplsType"] = "mesh-sdp"
            spoke == "vplsType" \in DOMAIN spec /\ spec["vplsType"] = "spoke-sdp"
        IN  /\ mesh => /\ "mesh-sdp" \in DOMAIN doc
                       /\ "spoke-sdp" \notin DOMAIN doc
                       /\ doc["mesh-sdp"] = <<entry>>
            /\ spoke => /\ "spoke-sdp" \in DOMAIN doc
                        /\ "mesh-sdp" \notin DOMAIN doc
                        /\ doc["spoke-sdp"] = <<entry>>

\* C17 witness: a spoke VPLS rendered for an endpoint with sdpId 2.
C17_Witness ==
    /\ handler = "_get_vpls_payload"
    /\ pc = "return"
    /\ GetD(spec, "vplsType", None) = "spoke-sdp"
    /\ "spoke-sdp" \in DOMAIN pushed[1][2]
    /\ pushed[1][2]["spoke-sdp"][1]["sdp-bind-id"] = <<"2", ":", "100">>

\* C18: reconciliation converges.  When the configuration Get of a
\* periodic pass returns what a successful push of the same intent stored
\* on the device, as pushed or under its JSON_IETF names, the pass detects
\* no drift on that endpoint, issues no Set and records InSync, for VPLS,
\* VPRN and ePipe alike.
C18_Converges ==
    (handler = "drift"
        /\ pc \in {"apply_connect", "set", "oper_connect", "oper"}
        /\ Supported(ServiceType)
        /\ observed_config \in {Document(StoredDocument(Client)),
                                Document(VendorDocument(Client))})
    => /\ ~is_drift_detected
       /\ Count(log, "set") = 0
       /\ pc \in {"oper_connect", "oper"} =>
             Outcome(RouterName) = <<ServiceType, " InSync">>

\* C19: in every status a create/update pass or a periodic pass produces,
\* Status=Ready implies that no entry of ProvisionedEndpoints is an error
\* outcome.
C19_ReadyHasNoErrorEntry ==
    (handler \in {"provision", "drift"} /\ pc = "done" /\ outcome = "returned"
        /\ status["Status"] = "Ready")
    => \A r \in DOMAIN GetD(status, "ProvisionedEndpoints", EmptyDict) :
          ~IsErrorOutcome(status["ProvisionedEndpoints"][r])

\* C20: errors stay attributable.  At the end of a periodic pass every
\* endpoint whose check raised has an error outcome under its router name,
\* also when a later endpoint has the same router name; so a status with
\* OperationalStatus=ERROR has at least one error entry.
C20_ErrorsAttributable ==
    (handler = "drift" /\ pc = "done" /\ outcome = "returned") =>
        /\ \A i \in DOMAIN failures :
              /\ RouterOf(i) \in DOMAIN status["ProvisionedEndpoints"]
              /\ IsErrorOutcome(status["ProvisionedEndpoints"][RouterOf(i)])
        /\ status["OperationalStatus"] = "ERROR" =>
              \E r \in DOMAIN status["ProvisionedEndpoints"] :
                  IsErrorOutcome(status["ProvisionedEndpoints"][r])

====
